---- MODULE Spec2Model ----
(***************************************************************************)
(* Threshold additive-ElGamal decryption core of vocdoni/elGamal-sandbox:  *)
(* the BabyJubJub group element wrapper (crypto/ecc/bjj_iden3), the vote   *)
(* aggregator (state/vote.go) and the Lagrange recombination and discrete  *)
(* logarithm solver (decrypt.go).                                          *)
(*                                                                         *)
(* The curve is a twisted Edwards curve a*x^2 + y^2 = 1 + d*x^2*y^2 with   *)
(* cofactor 8 over a small prime field, so that every group operation is   *)
(* computed on coordinates, as the wrapped library computes it.            *)
(***************************************************************************)
EXTENDS Integers, Sequences, FiniteSets, TLC

(***************************************************************************)
(* Field and curve parameters (go-iden3-crypto constants, scaled down).    *)
(***************************************************************************)
\* field modulus
Q == 223
\* curve coefficient a (a square mod Q)
CurveA == 2
\* curve coefficient d (a non-square mod Q)
CurveD == 5
\* order of the prime-order subgroup generated by B8
Order == 31
\* x coordinate of the subgroup generator B8
B8X == 200
\* y coordinate of the subgroup generator B8
B8Y == 39

FAdd(x, y) == (x + y) % Q
FSub(x, y) == (x - y) % Q
FMul(x, y) == (x * y) % Q
FNeg(x) == (0 - x) % Q
FInvTable == [x \in 1..(Q - 1) |-> CHOOSE y \in 1..(Q - 1) : (x * y) % Q = 1]
FInv(x) == FInvTable[x]

\* a point in affine coordinates
Pt(x, y) == [X |-> x, Y |-> y]
\* babyjubjub.NewPoint(): the identity (0, 1)
NewPoint == Pt(0, 1)
B8 == Pt(B8X, B8Y)

OnCurve(x, y) ==
    FAdd(FMul(CurveA, FMul(x, x)), FMul(y, y))
        = FAdd(1, FMul(CurveD, FMul(FMul(x, x), FMul(y, y))))
CurvePoints == {p \in [X : 0..(Q - 1), Y : 0..(Q - 1)] : OnCurve(p.X, p.Y)}

\* Point.Projective(): (x, y) -> (x, y, 1)
Projective(p) == [X |-> p.X, Y |-> p.Y, Z |-> 1]

\* PointProjective.Affine(): (X/Z, Y/Z), and (0, 0) when Z = 0
Affine(pp) ==
    IF pp.Z = 0 THEN Pt(0, 0)
    ELSE Pt(FMul(pp.X, FInv(pp.Z)), FMul(pp.Y, FInv(pp.Z)))

\* PointProjective.Add (add-2008-bbjlp)
ProjAdd(q, o) ==
    LET a == FMul(q.Z, o.Z)
        b == FMul(a, a)
        c == FMul(q.X, o.X)
        d == FMul(q.Y, o.Y)
        e == FMul(FMul(CurveD, c), d)
        f == FSub(b, e)
        g == FAdd(b, e)
        x1y1 == FAdd(q.X, q.Y)
        x2y2 == FAdd(o.X, o.Y)
        x3 == FMul(FMul(FSub(FSub(FMul(x1y1, x2y2), c), d), a), f)
        y3 == FMul(FMul(FSub(d, FMul(CurveA, c)), a), g)
        z3 == FMul(f, g)
    IN  [X |-> x3, Y |-> y3, Z |-> z3]

\* Point.Mul(s, q): double-and-add over the bits of s, least significant first
RECURSIVE MulBits(_, _, _)
MulBits(s, res, exp) ==
    IF s = 0 THEN res
    ELSE MulBits(s \div 2,
                 IF s % 2 = 1 THEN ProjAdd(res, exp) ELSE res,
                 ProjAdd(exp, exp))
PointMul(s, q) == Affine(MulBits(s, Projective(NewPoint), Projective(q)))

(***************************************************************************)
(* BJJ: the group element wrapper.  Each operator gives the receiver's     *)
(* value after the call.                                                   *)
(***************************************************************************)
BJJAdd(a, b) == Affine(ProjAdd(Projective(a), Projective(b)))
BJJScalarMult(a, scalar) == PointMul(scalar, a)
BJJScalarBaseMult(scalar) == PointMul(scalar, B8)
BJJEqual(g, a) == g.X = a.X /\ g.Y = a.Y
BJJSetZero(g) == Affine([Projective(g) EXCEPT !.X = 0, !.Y = 1, !.Z = 1])

\* BJJ.Neg(a) on receiver g: the projective X of the RECEIVER is negated and
\* written back; the argument is not read.
BJJNeg(g, a) ==
    LET proj == [Projective(g) EXCEPT !.X = FNeg(Projective(g).X)]
    IN  [g EXCEPT !.X = Affine(proj).X]

\* decimal digits of a natural number, most significant first
RECURSIVE Digits(_)
Digits(n) ==
    IF n < 10 THEN <<n>> ELSE Append(Digits(n \div 10), n % 10)
\* BJJ.String(): "<X>,<Y>" in decimal
BJJString(g) == Digits(g.X) \o <<",">> \o Digits(g.Y)

\* BJJ.Marshal(): Point.Compress(), the Y coordinate and the sign of X
PointCoordSign(c) == c > (Q \div 2)
BJJMarshal(g) == [Y |-> g.Y, Sign |-> PointCoordSign(g.X)]

\* BJJ.Unmarshal(buf): Point.Decompress(), X recovered from Y and the sign;
\* [err |-> TRUE] when no X exists
BJJUnmarshal(buf) ==
    LET y2 == FMul(buf.Y, buf.Y)
        xa == FSub(1, y2)
        xb == FSub(CurveA, FMul(CurveD, y2))
    IN  IF xb = 0 THEN [err |-> TRUE]
        ELSE LET x2 == FMul(xa, FInv(xb))
                 roots == {r \in 0..(Q - 1) : FMul(r, r) = x2}
             IN  IF roots = {} THEN [err |-> TRUE]
                 ELSE LET r == CHOOSE r \in roots : TRUE
                          x == IF buf.Sign # PointCoordSign(r) THEN FNeg(r) ELSE r
                      IN  [err |-> FALSE, point |-> Pt(x, buf.Y)]

\* the prime-order subgroup: the multiples of B8
Subgroup == {BJJScalarBaseMult(k) : k \in 0..(Order - 1)}

(***************************************************************************)
(* Additive ElGamal ciphertexts over the curve (crypto/elgamal).           *)
(***************************************************************************)
\* the public key the ballots are encrypted to
PublicKey == BJJScalarBaseMult(7)

\* elgamal.NewCiphertexts(Curve): both components the identity
NewCiphertexts == [C1 |-> NewPoint, C2 |-> NewPoint]
\* z.Add(x, y): component-wise group addition
CiphertextsAdd(x, y) == [C1 |-> BJJAdd(x.C1, y.C1), C2 |-> BJJAdd(x.C2, y.C2)]
\* (C1, C2) = (r*G, m*G + r*PK)
Encrypt(m, r) ==
    [C1 |-> BJJScalarBaseMult(r),
     C2 |-> BJJAdd(BJJScalarBaseMult(m), BJJScalarMult(PublicKey, r))]
\* Serialize(): the compressed encodings of the components, in order
CiphertextsSerialize(z) == <<BJJMarshal(z.C1), BJJMarshal(z.C2)>>
\* Deserialize(value): fails on a short buffer and on a component that does
\* not decompress
CiphertextsDeserialize(value) ==
    IF Len(value) # 2 THEN [err |-> TRUE]
    ELSE LET c1 == BJJUnmarshal(value[1])
             c2 == BJJUnmarshal(value[2])
         IN  IF c1.err \/ c2.err THEN [err |-> TRUE]
             ELSE [err |-> FALSE, ct |-> [C1 |-> c1.point, C2 |-> c2.point]]

(***************************************************************************)
(* State: the vote aggregator of one process (state/vote.go).              *)
(***************************************************************************)
\* maximum number of votes of one batch
VoteBatchSize == 2
\* AddVote calls followed within one batch
MaxCalls == VoteBatchSize + 1
\* AddVote calls followed while no batch is open
MaxClosedCalls == 1

Nullifiers == {"A", "B"}
Ballots == {Encrypt(1, 2), Encrypt(2, 3)}
Votes == [Nullifier : Nullifiers, Ballot : Ballots]

\* the value of a key that has no leaf
NoLeaf == <<>>
\* a Y coordinate that no curve point has
BadY == CHOOSE y \in 0..(Q - 1) : \A p \in CurvePoints : p.Y # y
\* leaf values that do not decode: a truncated buffer, and a component off the curve
CorruptValues ==
    {<<BJJMarshal(B8)>>,
     <<BJJMarshal(B8), [Y |-> BadY, Sign |-> FALSE]>>}
LeafValues == {CiphertextsSerialize(b) : b \in Ballots} \cup CorruptValues

VARIABLES
    dbTx,           \* TRUE while a batch transaction is open (o.dbTx != nil)
    tree,           \* the persisted tree: nullifier -> leaf value, or NoLeaf
    votes,          \* o.votes
    BallotSum,      \* o.BallotSum
    ballotCount,    \* o.ballotCount
    OverwriteSum,   \* o.OverwriteSum
    overwriteCount, \* o.overwriteCount
    calls           \* the AddVote calls of the current batch: <<vote, error>>

batchVars == <<votes, BallotSum, ballotCount, OverwriteSum, overwriteCount>>
voteVars == <<dbTx, tree, votes, BallotSum, ballotCount, OverwriteSum,
              overwriteCount, calls>>

\* the fields of the batch as one record
Batch ==
    [votes |-> votes, BallotSum |-> BallotSum, ballotCount |-> ballotCount,
     OverwriteSum |-> OverwriteSum, overwriteCount |-> overwriteCount]

\* o.tree.Get(key): (value, err), err when the key has no leaf
TreeGet(key) ==
    IF tree[key] = NoLeaf THEN [err |-> TRUE] ELSE [err |-> FALSE, value |-> tree[key]]

\* len(o.votes) >= VoteBatchSize
BatchFullOffByOne == Len(votes) > VoteBatchSize
BatchFull == Len(votes) >= VoteBatchSize

\* the overwrite branch of AddVote on batch b: the stored ciphertext of the
\* nullifier is decoded and counted; err when it does not decode
CountOverwriteBeforeDecode(b, v) ==
    LET got == TreeGet(v.Nullifier)
    IN  IF got.err THEN [err |-> "nil", batch |-> b]
        ELSE LET oldVote == CiphertextsDeserialize(got.value)
                 counted == [b EXCEPT !.overwriteCount = @ + 1]
             IN  IF oldVote.err THEN [err |-> "CorruptStoredBallot", batch |-> counted]
                 ELSE [err |-> "nil",
                       batch |-> [counted EXCEPT
                           !.OverwriteSum = CiphertextsAdd(@, oldVote.ct)]]
CountOverwrite(b, v) ==
    LET got == TreeGet(v.Nullifier)
    IN  IF got.err THEN [err |-> "nil", batch |-> b]
        ELSE LET oldVote == CiphertextsDeserialize(got.value)
             IN  IF oldVote.err THEN [err |-> "CorruptStoredBallot", batch |-> b]
                 ELSE [err |-> "nil",
                       batch |-> [b EXCEPT
                           !.OverwriteSum = CiphertextsAdd(@, oldVote.ct),
                           !.overwriteCount = @ + 1]]

\* the tail of AddVote on batch b: the ballot is summed, counted and appended
AccumulateSkipOverwrite(b, v) ==
    [b EXCEPT
        !.BallotSum = IF b.overwriteCount > overwriteCount THEN @
                      ELSE CiphertextsAdd(@, v.Ballot),
        !.ballotCount = @ + 1,
        !.votes = Append(@, v)]
Accumulate(b, v) ==
    [b EXCEPT
        !.BallotSum = CiphertextsAdd(@, v.Ballot),
        !.ballotCount = @ + 1,
        !.votes = Append(@, v)]

\* AddVote(v): the error returned and the batch it leaves
AddVoteResult(v) ==
    IF ~dbTx THEN [err |-> "BatchNotOpen", batch |-> Batch]
    ELSE IF BatchFull THEN [err |-> "BatchFull", batch |-> Batch]
    ELSE LET ow == CountOverwrite(Batch, v)
         IN  IF ow.err # "nil" THEN ow
             ELSE [err |-> "nil", batch |-> Accumulate(ow.batch, v)]

AddVote(v) ==
    /\ Len(calls) < (IF dbTx THEN MaxCalls ELSE MaxClosedCalls)
    /\ LET r == AddVoteResult(v)
       IN  /\ votes' = r.batch.votes
           /\ BallotSum' = r.batch.BallotSum
           /\ ballotCount' = r.batch.ballotCount
           /\ OverwriteSum' = r.batch.OverwriteSum
           /\ overwriteCount' = r.batch.overwriteCount
           /\ calls' = Append(calls, [vote |-> v, err |-> r.err])
    /\ UNCHANGED <<dbTx, tree>>

\* StartBatch(): opens the transaction on an empty batch
StartBatch ==
    /\ ~dbTx
    /\ dbTx' = TRUE
    /\ votes' = <<>>
    /\ BallotSum' = NewCiphertexts
    /\ ballotCount' = 0
    /\ OverwriteSum' = NewCiphertexts
    /\ overwriteCount' = 0
    /\ calls' = <<>>
    /\ UNCHANGED tree

\* the tree after the votes vs are written in order: a later vote of a
\* nullifier replaces the earlier one
RECURSIVE PutVotes(_, _)
PutVotes(t, vs) ==
    IF vs = <<>> THEN t
    ELSE PutVotes([t EXCEPT ![Head(vs).Nullifier] = CiphertextsSerialize(Head(vs).Ballot)],
                  Tail(vs))

\* EndBatch(): the votes of the batch are persisted and the transaction committed
EndBatch ==
    /\ dbTx
    /\ votes # <<>>
    /\ tree' = PutVotes(tree, votes)
    /\ dbTx' = FALSE
    /\ calls' = <<>>
    /\ UNCHANGED batchVars

VoteInit ==
    /\ dbTx = FALSE
    /\ tree \in [Nullifiers -> {NoLeaf} \cup LeafValues]
    /\ votes = <<>>
    /\ BallotSum = NewCiphertexts
    /\ ballotCount = 0
    /\ OverwriteSum = NewCiphertexts
    /\ overwriteCount = 0
    /\ calls = <<>>

(***************************************************************************)
(* Negation: one call g.Neg(a), with a another object or the receiver.     *)
(***************************************************************************)
VARIABLES
    negRecv,    \* the receiver g
    negArg,     \* the argument a
    negAlias,   \* TRUE when a is the receiver object itself
    negArg0,    \* the value of a when the call was made
    negPc       \* "call" before the call, "done" after

negVars == <<negRecv, negArg, negAlias, negArg0, negPc>>

NegInit ==
    /\ negRecv \in CurvePoints
    /\ negAlias \in BOOLEAN
    /\ negArg \in IF negAlias THEN {negRecv} ELSE Subgroup
    /\ negArg0 = negArg
    /\ negPc = "call"

NegCall ==
    /\ negPc = "call"
    /\ negRecv' = BJJNeg(negRecv, negArg)
    /\ negArg' = IF negAlias THEN negRecv' ELSE negArg
    /\ negPc' = "done"
    /\ UNCHANGED <<negAlias, negArg0>>

(***************************************************************************)
(* G1: the group element of the decryption code (decrypt.go).  The zero    *)
(* value &G1{} is the identity.                                            *)
(***************************************************************************)
G1Zero == NewPoint
G1Add(a, b) == Affine(ProjAdd(Projective(a), Projective(b)))
G1Neg(a) == Pt(FNeg(a.X), a.Y)
G1ScalarMult(a, scalar) == PointMul(scalar, a)
G1ScalarBaseMult(scalar) == PointMul(scalar, B8)
G1Equal(a, b) == a.X = b.X /\ a.Y = b.Y
G1String(a) == Digits(a.X) \o <<",">> \o Digits(a.Y)

(***************************************************************************)
(* Lagrange recombination (decrypt.go).                                    *)
(***************************************************************************)
\* big.Int.ModInverse(g, n): 0 stands for nil (g and n not coprime)
ModInverse(g, n) ==
    IF \E y \in 1..(n - 1) : (g * y) % n = 1
    THEN CHOOSE y \in 1..(n - 1) : (g * y) % n = 1
    ELSE 0

\* the numerator of participant i: the product of (-j mod N) over the j # i
RECURSIVE LagrangeNumerator(_, _)
LagrangeNumerator(i, js) ==
    IF js = <<>> THEN 1
    ELSE LET j == js[Len(js)]
             rest == LagrangeNumerator(i, SubSeq(js, 1, Len(js) - 1))
         IN  IF i # j THEN (rest * ((0 - j) % Order)) % Order ELSE rest

\* (i - j), plus the modulus when negative, reduced
TempDenSwapped(i, j) == (j - i) % Order
TempDen(i, j) ==
    LET d == i - j
    IN  (IF d < 0 THEN d + Order ELSE d) % Order

\* the denominator of participant i: the product of (i - j mod N) over the j # i
RECURSIVE LagrangeDenominator(_, _)
LagrangeDenominator(i, js) ==
    IF js = <<>> THEN 1
    ELSE LET j == js[Len(js)]
             rest == LagrangeDenominator(i, SubSeq(js, 1, Len(js) - 1))
         IN  IF i # j THEN (rest * TempDen(i, j)) % Order ELSE rest

SeqRange(sq) == {sq[k] : k \in 1..Len(sq)}

\* computeLagrangeCoefficients(participants): the map id -> coefficient, or
\* fatal when a denominator has no inverse (log.Fatalf)
computeLagrangeCoefficients(participants) ==
    LET ids == SeqRange(participants)
        inv(i) == ModInverse(LagrangeDenominator(i, participants), Order)
    IN  IF \E i \in ids : inv(i) = 0
        THEN [fatal |-> TRUE]
        ELSE [fatal |-> FALSE,
              coeffs |-> [i \in ids |->
                  (LagrangeNumerator(i, participants) * inv(i)) % Order]]

(***************************************************************************)
(* Discrete logarithm by Baby-Step Giant-Step (decrypt.go).                *)
(***************************************************************************)
\* the largest message searched for
discreteLogMaxMessage == 12

\* uint64(math.Sqrt(float64(n)))
ISqrt(n) == CHOOSE r \in 0..n : r * r <= n /\ (r + 1) * (r + 1) > n
mSqrt == ISqrt(discreteLogMaxMessage) + 1

\* no call has returned
NoResult == [err |-> FALSE, x |-> -1]
\* babySteps[key] = j
MapPut(f, k, v) == [x \in (DOMAIN f) \cup {k} |-> IF x = k THEN v ELSE f[x]]
EmptyMap == [x \in {} |-> 0]

\* the baby-step loop from j on, babyStep the running point
RECURSIVE BabyStepLoop(_, _, _)
BabyStepLoop(j, babyStep, babySteps) ==
    IF j >= mSqrt THEN babySteps
    ELSE BabyStepLoop(j + 1, G1Add(babyStep, G1ScalarBaseMult(1)),
                      MapPut(babySteps, G1String(babyStep), j))
babyStepTable == BabyStepLoop(0, G1Zero, EmptyMap)

\* c = -(mSqrt * G)
giantFactor == G1Neg(G1ScalarBaseMult(mSqrt))

\* x = i * mSqrt + j
GiantHitSkewed(i, j) == i * (mSqrt - 1) + j
GiantHit(i, j) == i * mSqrt + j

\* the giant-step loop from i on, giantStep the running point
RECURSIVE GiantStepLoop(_, _)
GiantStepLoop(i, giantStep) ==
    IF i > mSqrt THEN [err |-> TRUE]
    ELSE LET key == G1String(giantStep)
         IN  IF key \in DOMAIN babyStepTable
             THEN [err |-> FALSE, x |-> GiantHit(i, babyStepTable[key])]
             ELSE GiantStepLoop(i + 1, G1Add(giantStep, giantFactor))

\* babyStepGiantStep(m): (x, nil) or (nil, error)
babyStepGiantStep(m) == GiantStepLoop(0, m)

(***************************************************************************)
(* babyStepGiantStep followed one loop iteration at a time, for a search   *)
(* bound maxMessage.                                                       *)
(***************************************************************************)
\* the search bounds followed: the configured one, and one whose baby-step
\* table is longer than the order of G
TableMaxMessages == {discreteLogMaxMessage, Order * Order}
\* the arguments m followed
TableArguments == {G1ScalarBaseMult(x) : x \in 0..discreteLogMaxMessage}

VARIABLES
    bsMaxMessage,   \* maxMessage
    bsArg,          \* the argument m
    bsJ,            \* j of the baby-step loop
    bsBabyStep,     \* babyStep, the running point
    bsBabySteps,    \* babySteps, the map from String() keys to j
    bsI,            \* i of the giant-step loop
    bsGiantStep,    \* giantStep, the running point
    bsPc,           \* "idle", "baby", "giant", "returned"
    bsRet           \* what babyStepGiantStep returned

bsgsVars == <<bsMaxMessage, bsArg, bsJ, bsBabyStep, bsBabySteps, bsI, bsGiantStep,
              bsPc, bsRet>>

\* mSqrt := uint64(math.Sqrt(float64(maxMessage))) + 1
bsMSqrt == ISqrt(bsMaxMessage) + 1

\* the call of babyStepGiantStep(m), before the first baby step
BabyStepInit ==
    /\ bsMaxMessage \in TableMaxMessages
    /\ bsArg \in TableArguments
    /\ bsJ = 0
    /\ bsBabyStep = G1Zero
    /\ bsBabySteps = EmptyMap
    /\ bsI = 0
    /\ bsGiantStep = G1Zero
    /\ bsPc = "baby"
    /\ bsRet = NoResult

\* one iteration of the baby-step loop: key := babyStep.String();
\* babySteps[key] = j; babyStep.Add(babyStep, G)
BabyStepIter ==
    /\ bsPc = "baby"
    /\ bsJ < bsMSqrt
    /\ bsBabySteps' = MapPut(bsBabySteps, G1String(bsBabyStep), bsJ)
    /\ bsBabyStep' = G1Add(bsBabyStep, G1ScalarBaseMult(1))
    /\ bsJ' = bsJ + 1
    /\ UNCHANGED <<bsMaxMessage, bsArg, bsI, bsGiantStep, bsPc, bsRet>>

\* the baby-step loop ends: giantStep is set to m
BabyStepsDone ==
    /\ bsPc = "baby"
    /\ bsJ >= bsMSqrt
    /\ bsGiantStep' = bsArg
    /\ bsI' = 0
    /\ bsPc' = "giant"
    /\ UNCHANGED <<bsMaxMessage, bsArg, bsJ, bsBabyStep, bsBabySteps, bsRet>>

\* one iteration of the giant-step loop, or its end with the error
GiantStepIter ==
    /\ bsPc = "giant"
    /\ IF bsI > bsMSqrt
       THEN /\ bsRet' = [err |-> TRUE]
            /\ bsPc' = "returned"
            /\ UNCHANGED <<bsI, bsGiantStep>>
       ELSE LET key == G1String(bsGiantStep)
            IN  IF key \in DOMAIN bsBabySteps
                THEN /\ bsRet' = [err |-> FALSE, x |-> bsI * bsMSqrt + bsBabySteps[key]]
                     /\ bsPc' = "returned"
                     /\ UNCHANGED <<bsI, bsGiantStep>>
                ELSE /\ bsGiantStep' =
                           G1Add(bsGiantStep, G1Neg(G1ScalarBaseMult(bsMSqrt)))
                     /\ bsI' = bsI + 1
                     /\ UNCHANGED <<bsPc, bsRet>>
    /\ UNCHANGED <<bsMaxMessage, bsArg, bsJ, bsBabyStep, bsBabySteps>>

BabyStepIdle ==
    /\ bsMaxMessage = discreteLogMaxMessage
    /\ bsArg = G1Zero
    /\ bsJ = 0
    /\ bsBabyStep = G1Zero
    /\ bsBabySteps = EmptyMap
    /\ bsI = 0
    /\ bsGiantStep = G1Zero
    /\ bsPc = "idle"
    /\ bsRet = NoResult

(***************************************************************************)
(* Lagrange coefficients of one participant list.                          *)
(***************************************************************************)
\* largest participant id
MaxParticipantId == 4
\* longest participant list
MaxParticipants == 3

RECURSIVE SeqsUpTo(_, _)
SeqsUpTo(S, n) ==
    IF n = 0 THEN {<<>>}
    ELSE LET shorter == SeqsUpTo(S, n - 1)
         IN  shorter \cup {Append(sq, x) : sq \in {t \in shorter : Len(t) = n - 1}, x \in S}

VARIABLES
    lagParticipants,   \* the participants argument
    lagResult,         \* the returned map, or fatal
    lagPc              \* "call", "done" or "fatal"

lagVars == <<lagParticipants, lagResult, lagPc>>

LagrangeInit ==
    /\ lagParticipants \in SeqsUpTo(1..MaxParticipantId, MaxParticipants) \ {<<>>}
    /\ lagResult = [fatal |-> FALSE]
    /\ lagPc = "call"

LagrangeCall ==
    /\ lagPc = "call"
    /\ lagResult' = computeLagrangeCoefficients(lagParticipants)
    /\ lagPc' = IF lagResult'.fatal THEN "fatal" ELSE "done"
    /\ UNCHANGED lagParticipants

(***************************************************************************)
(* Decryption: partial decryptions, their recombination into the point M,  *)
(* and the discrete logarithm of M by either strategy (decrypt.go).        *)
(***************************************************************************)
\* number of workers of the brute-force search
numWorkersDiscreteLogBruteForce == 3
\* participants holding a share: ids 1..NumParticipants
NumParticipants == 3
\* participants needed to decrypt: the shared polynomial has degree Threshold - 1
Threshold == 2

Workers == 0..(numWorkersDiscreteLogBruteForce - 1)
\* step := discreteLogMaxMessage / numWorkersDiscreteLogBruteForce (at least 1 here)
step == discreteLogMaxMessage \div numWorkersDiscreteLogBruteForce
WorkerStart(w) == w * step
WorkerEnd(w) ==
    IF w = numWorkersDiscreteLogBruteForce - 1 THEN discreteLogMaxMessage
    ELSE WorkerStart(w) + (step - 1)

\* the value of the polynomial with coefficients poly (constant term first) at x
RECURSIVE PolyEval(_, _)
PolyEval(poly, x) ==
    IF poly = <<>> THEN 0
    ELSE (poly[1] + x * PolyEval(Tail(poly), x)) % Order
\* Participant{ID: id, PrivateShare: f(id)}
Participant(poly, id) == [ID |-> id, PrivateShare |-> PolyEval(poly, id)]

\* p.ComputePartialDecryption(c1): s_i = privateShare * C1
ComputePartialDecryption(p, c1) == G1ScalarMult(c1, p.PrivateShare)

\* the loop of CombinePartialDecryptions: s = sum of lambda_id * pd[id] over the list
RECURSIVE WeightedSum(_, _, _)
WeightedSum(ids, pds, coeffs) ==
    IF ids = <<>> THEN G1Zero
    ELSE LET id == ids[Len(ids)]
             term == G1ScalarMult(pds[id], coeffs[id])
         IN  G1Add(WeightedSum(SubSeq(ids, 1, Len(ids) - 1), pds, coeffs), term)

\* M = C2 - s, or fatal when the Lagrange coefficients do not exist
RecoverPointFirstOnly(c2, pds, ids) ==
    LET lc == computeLagrangeCoefficients(ids)
    IN  IF lc.fatal THEN [fatal |-> TRUE]
        ELSE [fatal |-> FALSE,
              m |-> G1Add(c2, G1Neg(G1ScalarMult(pds[ids[1]], lc.coeffs[ids[1]])))]
RecoverPoint(c2, pds, ids) ==
    LET lc == computeLagrangeCoefficients(ids)
    IN  IF lc.fatal THEN [fatal |-> TRUE]
        ELSE [fatal |-> FALSE,
              m |-> G1Add(c2, G1Neg(WeightedSum(ids, pds, lc.coeffs)))]

NoPoint == Pt(0, 0)
\* for the points of the subgroup, the scalar x in [0, N-1] with x*G the point
SubgroupScalar ==
    [p \in {G1ScalarBaseMult(x) : x \in 0..(Order - 1)} |->
        CHOOSE x \in 0..(Order - 1) : G1ScalarBaseMult(x) = p]
NoReturn == [kind |-> "none"]

VARIABLES
    shamirPoly,         \* coefficients of the shared polynomial, the secret first
    message,            \* the plaintext of the ciphertext
    ciphertext,         \* (C1, C2)
    participantIds,     \* the participants argument of CombinePartialDecryptions
    partialDecryptions, \* id -> s_i, of the participants that computed theirs
    useBabyStepGiantStep,
    m,                  \* the point M whose discrete logarithm is searched
    mScalar,            \* a scalar x with m = x*G, or -1 when m is outside the subgroup
    pc,                 \* position of CombinePartialDecryptions
    ret,                \* what CombinePartialDecryptions returned
    results,            \* the results channel (capacity: the number of workers)
    done,               \* TRUE once the done channel is closed
    collected,          \* the coordinator's loop counter
    wPc,                \* per worker: "idle", "scan", "found", "notfound", "exit"
    wI,                 \* per worker: the loop variable i
    wReported           \* per worker: what it sent on results, "none" if nothing

combineVars == <<shamirPoly, message, ciphertext, participantIds, partialDecryptions>>
solveVars == <<useBabyStepGiantStep, m, mScalar, pc, ret, results, done, collected,
               wPc, wI, wReported>>
decryptVars == <<combineVars, solveVars>>

\* a participant computes its partial decryption of C1
PartialDecryptionStep(id) ==
    /\ pc = "shares"
    /\ id \in SeqRange(participantIds)
    /\ id \notin DOMAIN partialDecryptions
    /\ partialDecryptions' =
          MapPut(partialDecryptions, id,
                 ComputePartialDecryption(Participant(shamirPoly, id), ciphertext.C1))
    /\ UNCHANGED <<shamirPoly, message, ciphertext, participantIds, solveVars>>

\* CombinePartialDecryptions up to the point M (log.Fatalf ends the process)
CombineStep ==
    /\ pc = "shares"
    /\ SeqRange(participantIds) \subseteq DOMAIN partialDecryptions
    /\ LET r == RecoverPoint(ciphertext.C2, partialDecryptions, participantIds)
       IN  IF r.fatal
           THEN /\ pc' = "fatal"
                /\ UNCHANGED <<m, mScalar>>
           ELSE /\ pc' = "solve"
                /\ m' = r.m
                /\ mScalar' = IF r.m \in DOMAIN SubgroupScalar
                              THEN SubgroupScalar[r.m] ELSE -1
    /\ UNCHANGED <<combineVars, useBabyStepGiantStep, ret, results, done, collected,
                   wPc, wI, wReported>>

\* the Baby-Step Giant-Step branch
SolveBSGS ==
    /\ pc = "solve"
    /\ useBabyStepGiantStep
    /\ LET r == babyStepGiantStep(m)
       IN  ret' = IF r.err THEN [kind |-> "error"] ELSE [kind |-> "scalar", x |-> r.x]
    /\ pc' = "returned"
    /\ UNCHANGED <<combineVars, useBabyStepGiantStep, m, mScalar, results, done,
                   collected, wPc, wI, wReported>>

\* the brute-force branch: the channels are made and the workers started
StartWorkers ==
    /\ pc = "solve"
    /\ ~useBabyStepGiantStep
    /\ results' = <<>>
    /\ done' = FALSE
    /\ wPc' = [w \in Workers |-> "scan"]
    /\ wI' = [w \in Workers |-> WorkerStart(w)]
    /\ collected' = 0
    /\ pc' = "collect"
    /\ UNCHANGED <<combineVars, useBabyStepGiantStep, m, mScalar, ret, wReported>>

\* testPoint.ScalarBaseMult(messageScalar) for the scalars of the search space
TestPoint == [i \in 0..discreteLogMaxMessage |-> G1ScalarBaseMult(i)]
\* one iteration of a worker's loop: the loop test, and the comparison with M
WorkerScan(w) ==
    /\ wPc[w] = "scan"
    /\ IF wI[w] > WorkerEnd(w)
       THEN /\ wPc' = [wPc EXCEPT ![w] = "notfound"]
            /\ UNCHANGED wI
       ELSE IF G1Equal(TestPoint[wI[w]], m)
            THEN /\ wPc' = [wPc EXCEPT ![w] = "found"]
                 /\ UNCHANGED wI
            ELSE /\ wI' = [wI EXCEPT ![w] = @ + 1]
                 /\ UNCHANGED wPc
    /\ UNCHANGED <<combineVars, useBabyStepGiantStep, m, mScalar, pc, ret, results,
                   done, collected, wReported>>

\* select { case results <- result{messageScalar, true}: case <-done: }, then return
WorkerSelect(w) ==
    /\ wPc[w] = "found"
    /\ \/ /\ Len(results) < numWorkersDiscreteLogBruteForce
          /\ results' = Append(results, [messageScalar |-> wI[w], found |-> TRUE])
          /\ wReported' = [wReported EXCEPT ![w] = "found"]
       \/ /\ done
          /\ UNCHANGED <<results, wReported>>
    /\ wPc' = [wPc EXCEPT ![w] = "exit"]
    /\ UNCHANGED <<combineVars, useBabyStepGiantStep, m, mScalar, pc, ret, done,
                   collected, wI>>

\* the send on a channel without a buffer: it completes only while the
\* coordinator is at its receive
WorkerSendNotFoundUnbuffered(w) ==
    /\ wPc[w] = "notfound"
    /\ pc = "collect"
    /\ results = <<>>
    /\ results' = Append(results, [messageScalar |-> -1, found |-> FALSE])
    /\ wReported' = [wReported EXCEPT ![w] = "notfound"]
    /\ wPc' = [wPc EXCEPT ![w] = "exit"]
    /\ UNCHANGED <<combineVars, useBabyStepGiantStep, m, mScalar, pc, ret, done,
                   collected, wI>>
\* results <- result{nil, false}
WorkerSendNotFound(w) ==
    /\ wPc[w] = "notfound"
    /\ Len(results) < numWorkersDiscreteLogBruteForce
    /\ results' = Append(results, [messageScalar |-> -1, found |-> FALSE])
    /\ wReported' = [wReported EXCEPT ![w] = "notfound"]
    /\ wPc' = [wPc EXCEPT ![w] = "exit"]
    /\ UNCHANGED <<combineVars, useBabyStepGiantStep, m, mScalar, pc, ret, done,
                   collected, wI>>

\* the coordinator after res := <-results: return on a match, count otherwise,
\* and the error once every worker was heard; done is closed on return
CoordinatorAfterAll(res) ==
    IF collected + 1 < numWorkersDiscreteLogBruteForce
    THEN /\ collected' = collected + 1
         /\ UNCHANGED <<pc, ret, done>>
    ELSE /\ collected' = collected + 1
         /\ pc' = "returned"
         /\ ret' = IF res.found THEN [kind |-> "scalar", x |-> res.messageScalar]
                   ELSE [kind |-> "error"]
         /\ done' = TRUE
CoordinatorAfter(res) ==
    IF res.found
    THEN /\ pc' = "returned"
         /\ ret' = [kind |-> "scalar", x |-> res.messageScalar]
         /\ done' = TRUE
         /\ UNCHANGED collected
    ELSE /\ collected' = collected + 1
         /\ done' = (collected + 1 >= numWorkersDiscreteLogBruteForce)
         /\ pc' = IF collected + 1 < numWorkersDiscreteLogBruteForce
                  THEN "collect" ELSE "returned"
         /\ ret' = IF collected + 1 < numWorkersDiscreteLogBruteForce
                   THEN ret ELSE [kind |-> "error"]

\* one receive of the collecting loop
CoordinatorReceive ==
    /\ pc = "collect"
    /\ collected < numWorkersDiscreteLogBruteForce
    /\ results # <<>>
    /\ results' = Tail(results)
    /\ CoordinatorAfter(Head(results))
    /\ UNCHANGED <<combineVars, useBabyStepGiantStep, m, mScalar, wPc, wI, wReported>>

SolveIdle ==
    /\ ret = NoReturn
    /\ results = <<>>
    /\ done = FALSE
    /\ collected = 0
    /\ wPc = [w \in Workers |-> "idle"]
    /\ wI = [w \in Workers |-> 0]
    /\ wReported = [w \in Workers |-> "none"]

\* the coefficients the shared polynomial is drawn from
PolyCoefficients == {3, Order - 2}
\* encryption randomness of the ciphertext
Randomness == 5

\* a ciphertext of message under the shared key, participants still to act;
\* useBabyStepGiantStep has its initial value
CombineInit ==
    /\ shamirPoly \in [1..Threshold -> PolyCoefficients]
    /\ message \in 0..discreteLogMaxMessage
    /\ ciphertext =
          [C1 |-> G1ScalarBaseMult(Randomness),
           C2 |-> G1Add(G1ScalarBaseMult(message),
                        G1ScalarMult(G1ScalarBaseMult(shamirPoly[1]), Randomness))]
    /\ participantIds \in
          {sq \in SeqsUpTo(1..NumParticipants, Threshold) : Len(sq) = Threshold}
    /\ partialDecryptions = EmptyMap
    /\ useBabyStepGiantStep = TRUE
    /\ m = NoPoint
    /\ mScalar = -1
    /\ pc = "shares"
    /\ SolveIdle

CombineIdle ==
    /\ shamirPoly = <<>>
    /\ message = 0
    /\ ciphertext = [C1 |-> G1Zero, C2 |-> G1Zero]
    /\ participantIds = <<>>
    /\ partialDecryptions = EmptyMap

\* points outside the subgroup generated by G
OffSubgroupPoints == {Pt(0, Q - 1), Pt(1, 111)}

\* the solver at the point M, under either strategy
SolveInit ==
    /\ CombineIdle
    /\ useBabyStepGiantStep \in BOOLEAN
    /\ mScalar \in (0..(Order - 1)) \cup {-1}
    /\ m \in IF mScalar >= 0 THEN {G1ScalarBaseMult(mScalar)} ELSE OffSubgroupPoints
    /\ pc = "solve"
    /\ SolveIdle

DecryptIdle ==
    /\ CombineIdle
    /\ useBabyStepGiantStep = TRUE
    /\ m = NoPoint
    /\ mScalar = -1
    /\ pc = "idle"
    /\ SolveIdle

(***************************************************************************)
(* Concurrent accumulation into one shared point (babyjubjub.go): every    *)
(* caller executes acc.SafeAdd(acc, x) on one accumulator and, next to it, *)
(* acc.Add(acc, x) on a second accumulator with the same initial value.    *)
(***************************************************************************)
\* concurrent callers per accumulator
NumCallers == 2
Callers == 1..NumCallers
Methods == {"SafeAdd", "Add"}
\* the lock is free
NoHolder == 0
\* initial values of the accumulators
AccInitials == {NewPoint, B8}
\* the points the callers add
Addends == {B8, BJJScalarBaseMult(2)}

VARIABLES
    accStart,   \* the value both accumulators start with
    addend,     \* per caller: its argument b
    accInner,   \* per method: inner of the accumulator updated through it
    accLock,    \* holder of the lock of the SafeAdd accumulator, or NoHolder
    callPc,     \* per method and caller: "lock", "read", "write", "unlock", "done"
    callSum     \* per method and caller: the sum computed from what it read

accVars == <<accStart, addend, accInner, accLock, callPc, callSum>>

AccumulateInit ==
    /\ accStart \in AccInitials
    /\ addend \in [Callers -> Addends]
    /\ accInner = [meth \in Methods |-> accStart]
    /\ accLock = NoHolder
    /\ callPc = [meth \in Methods |->
                    [c \in Callers |-> IF meth = "SafeAdd" THEN "lock" ELSE "read"]]
    /\ callSum = [meth \in Methods |-> [c \in Callers |-> NewPoint]]

\* a Lock() that does not wait for the holder
SafeAddLockNoWait(c) ==
    /\ callPc["SafeAdd"][c] = "lock"
    /\ accLock' = c
    /\ callPc' = [callPc EXCEPT !["SafeAdd"][c] = "read"]
    /\ UNCHANGED <<accStart, addend, accInner, callSum>>
\* g.lock.Lock()
SafeAddLock(c) ==
    /\ callPc["SafeAdd"][c] = "lock"
    /\ accLock = NoHolder
    /\ accLock' = c
    /\ callPc' = [callPc EXCEPT !["SafeAdd"][c] = "read"]
    /\ UNCHANGED <<accStart, addend, accInner, callSum>>

\* Add, right-hand side: a.inner and b.inner are read and their sum computed
AddRead(meth, c) ==
    /\ callPc[meth][c] = "read"
    /\ callSum' = [callSum EXCEPT ![meth][c] = BJJAdd(accInner[meth], addend[c])]
    /\ callPc' = [callPc EXCEPT ![meth][c] = "write"]
    /\ UNCHANGED <<accStart, addend, accInner, accLock>>

\* Add, the assignment g.inner = ...
AddWrite(meth, c) ==
    /\ callPc[meth][c] = "write"
    /\ accInner' = [accInner EXCEPT ![meth] = callSum[meth][c]]
    /\ callPc' = [callPc EXCEPT ![meth][c] =
                                IF meth = "SafeAdd" THEN "unlock" ELSE "done"]
    /\ UNCHANGED <<accStart, addend, accLock, callSum>>

\* defer g.lock.Unlock()
SafeAddUnlock(c) ==
    /\ callPc["SafeAdd"][c] = "unlock"
    /\ accLock' = NoHolder
    /\ callPc' = [callPc EXCEPT !["SafeAdd"][c] = "done"]
    /\ UNCHANGED <<accStart, addend, accInner, callSum>>

AccumulateIdle ==
    /\ accStart = NewPoint
    /\ addend = [c \in Callers |-> NewPoint]
    /\ accInner = [meth \in Methods |-> NewPoint]
    /\ accLock = NoHolder
    /\ callPc = [meth \in Methods |-> [c \in Callers |-> "idle"]]
    /\ callSum = [meth \in Methods |-> [c \in Callers |-> NewPoint]]

(***************************************************************************)
(* Specifications: one per component, the others at rest.                  *)
(***************************************************************************)
vars == <<voteVars, negVars, lagVars, decryptVars, bsgsVars, accVars>>

NegIdle ==
    /\ negRecv = NewPoint
    /\ negArg = NewPoint
    /\ negAlias = FALSE
    /\ negArg0 = NewPoint
    /\ negPc = "idle"

VoteIdle ==
    /\ dbTx = FALSE
    /\ tree = [n \in Nullifiers |-> NoLeaf]
    /\ votes = <<>>
    /\ BallotSum = NewCiphertexts
    /\ ballotCount = 0
    /\ OverwriteSum = NewCiphertexts
    /\ overwriteCount = 0
    /\ calls = <<>>

LagrangeIdle ==
    /\ lagParticipants = <<>>
    /\ lagResult = [fatal |-> FALSE]
    /\ lagPc = "idle"

VoteSpecNext ==
    \/ StartBatch /\ UNCHANGED <<negVars, lagVars, decryptVars, bsgsVars, accVars>>
    \/ (\E v \in Votes : AddVote(v)) /\ UNCHANGED <<negVars, lagVars, decryptVars, bsgsVars, accVars>>
    \/ EndBatch /\ UNCHANGED <<negVars, lagVars, decryptVars, bsgsVars, accVars>>
VoteSpecInit == VoteInit /\ NegIdle /\ LagrangeIdle /\ DecryptIdle /\ BabyStepIdle /\ AccumulateIdle
VoteSpec == VoteSpecInit /\ [][VoteSpecNext]_vars

NegSpecNext == NegCall /\ UNCHANGED <<voteVars, lagVars, decryptVars, bsgsVars, accVars>>
NegSpecInit == NegInit /\ VoteIdle /\ LagrangeIdle /\ DecryptIdle /\ BabyStepIdle /\ AccumulateIdle
NegSpec == NegSpecInit /\ [][NegSpecNext]_vars

LagrangeSpecNext ==
    LagrangeCall /\ UNCHANGED <<voteVars, negVars, decryptVars, bsgsVars, accVars>>
LagrangeSpecInit ==
    LagrangeInit /\ VoteIdle /\ NegIdle /\ DecryptIdle /\ BabyStepIdle /\ AccumulateIdle
LagrangeSpec == LagrangeSpecInit /\ [][LagrangeSpecNext]_vars

othersAtRest == UNCHANGED <<voteVars, negVars, lagVars, bsgsVars, accVars>>
SolveNext ==
    \/ SolveBSGS /\ othersAtRest
    \/ StartWorkers /\ othersAtRest
    \/ (\E w \in Workers : WorkerScan(w)) /\ othersAtRest
    \/ (\E w \in Workers : WorkerSelect(w)) /\ othersAtRest
    \/ (\E w \in Workers : WorkerSendNotFound(w)) /\ othersAtRest
    \/ CoordinatorReceive /\ othersAtRest

CombineSpecNext ==
    \/ (\E id \in 1..NumParticipants : PartialDecryptionStep(id)) /\ othersAtRest
    \/ CombineStep /\ othersAtRest
    \/ SolveBSGS /\ othersAtRest
CombineSpecInit == CombineInit /\ VoteIdle /\ NegIdle /\ LagrangeIdle /\ BabyStepIdle /\ AccumulateIdle
CombineSpec == CombineSpecInit /\ [][CombineSpecNext]_vars

SolveSpecInit == SolveInit /\ VoteIdle /\ NegIdle /\ LagrangeIdle /\ BabyStepIdle /\ AccumulateIdle
SolveSpec == SolveSpecInit /\ [][SolveNext]_vars

\* one step of the goroutine of worker w
WorkerStep(w) ==
    (WorkerScan(w) \/ WorkerSelect(w) \/ WorkerSendNotFound(w)) /\ othersAtRest
\* the scheduler runs every goroutine of the brute force that can take a
\* step: the caller of CombinePartialDecryptions, which starts the workers and
\* collects, and each worker started with the go statement
SolveFairness ==
    /\ WF_vars(StartWorkers /\ othersAtRest)
    /\ WF_vars(CoordinatorReceive /\ othersAtRest)
    /\ \A w \in Workers : WF_vars(WorkerStep(w))
SolveFairSpec == SolveSpecInit /\ [][SolveNext]_vars /\ SolveFairness

BabyStepSpecNext ==
    \/ BabyStepIter /\ UNCHANGED <<voteVars, negVars, lagVars, decryptVars, accVars>>
    \/ BabyStepsDone /\ UNCHANGED <<voteVars, negVars, lagVars, decryptVars, accVars>>
    \/ GiantStepIter /\ UNCHANGED <<voteVars, negVars, lagVars, decryptVars, accVars>>
BabyStepSpecInit ==
    BabyStepInit /\ VoteIdle /\ NegIdle /\ LagrangeIdle /\ DecryptIdle /\ AccumulateIdle
BabyStepSpec == BabyStepSpecInit /\ [][BabyStepSpecNext]_vars

allButAccumulator == UNCHANGED <<voteVars, negVars, lagVars, decryptVars, bsgsVars>>
AccumulateSpecNext ==
    \/ (\E c \in Callers : SafeAddLock(c)) /\ allButAccumulator
    \/ (\E meth \in Methods, c \in Callers : AddRead(meth, c)) /\ allButAccumulator
    \/ (\E meth \in Methods, c \in Callers : AddWrite(meth, c)) /\ allButAccumulator
    \/ (\E c \in Callers : SafeAddUnlock(c)) /\ allButAccumulator
AccumulateSpecInit ==
    AccumulateInit /\ VoteIdle /\ NegIdle /\ LagrangeIdle /\ DecryptIdle /\ BabyStepIdle
AccumulateSpec == AccumulateSpecInit /\ [][AccumulateSpecNext]_vars

(***************************************************************************)
(* Claims about the vote aggregator (VoteSpec).                            *)
(***************************************************************************)
\* the homomorphic sum of a sequence of ciphertexts, from scratch
RECURSIVE SumCiphertexts(_)
SumCiphertexts(cts) ==
    IF cts = <<>> THEN NewCiphertexts
    ELSE CiphertextsAdd(SumCiphertexts(SubSeq(cts, 1, Len(cts) - 1)), cts[Len(cts)])

IsAccepted(c) == c.err = "nil"
\* the votes of the accepted calls, in call order
AcceptedVotes ==
    LET acc == SelectSeq(calls, IsAccepted)
    IN  [i \in 1..Len(acc) |-> acc[i].vote]
\* the vote's nullifier has a leaf in the persisted tree
HasLeaf(v) == tree[v.Nullifier] # NoLeaf
\* the vote's nullifier has no leaf, or one that decodes
IsValidVote(v) == ~HasLeaf(v) \/ ~CiphertextsDeserialize(tree[v.Nullifier]).err
\* the stored ciphertexts that the votes vs overwrite, in order
StoredOf(vs) ==
    LET ow == SelectSeq(vs, HasLeaf)
    IN  [i \in 1..Len(ow) |-> CiphertextsDeserialize(tree[ow[i].Nullifier]).ct]
\* the first two calls of the batch were accepted and carry the same nullifier
TwoVotesSameNullifier ==
    /\ dbTx
    /\ Len(calls) = 2
    /\ IsAccepted(calls[1]) /\ IsAccepted(calls[2])
    /\ calls[1].vote.Nullifier = calls[2].vote.Nullifier

\* C1: from an open, empty batch, AddVote(A, E1) then AddVote(A, E2) leave
\* ballotSum = E1 + E2, overwriteSum = E1, overwriteCount = 1, ballotCount = 2
\* and len(votes) = 2: the second vote overwrites the first one's ciphertext.
C1_OverwriteWithinBatch ==
    TwoVotesSameNullifier =>
        /\ BallotSum = CiphertextsAdd(calls[1].vote.Ballot, calls[2].vote.Ballot)
        /\ OverwriteSum = calls[1].vote.Ballot
        /\ overwriteCount = 1
        /\ ballotCount = 2
        /\ Len(votes) = 2

\* the batch got VoteBatchSize + 1 calls, all of valid, pairwise distinct votes
OverfullDistinctCalls ==
    /\ dbTx
    /\ Len(calls) = VoteBatchSize + 1
    /\ \A i \in 1..Len(calls) : IsValidVote(calls[i].vote)
    /\ \A i, j \in 1..Len(calls) : i # j => calls[i].vote # calls[j].vote

\* C2: len(votes) never exceeds VoteBatchSize; of VoteBatchSize + 1 distinct
\* valid votes added to one open batch the first VoteBatchSize are accepted and
\* the last one fails with the batch-full error.
C2_BatchCapacity ==
    /\ Len(votes) <= VoteBatchSize
    /\ OverfullDistinctCalls =>
        /\ \A i \in 1..VoteBatchSize : calls[i].err = "nil"
        /\ calls[VoteBatchSize + 1].err = "BatchFull"
C2_Witness ==
    /\ OverfullDistinctCalls
    /\ calls[VoteBatchSize + 1].err = "BatchFull"
    /\ Len(votes) = VoteBatchSize

\* the step is an AddVote call that returned an error
FailedAddVoteStep ==
    /\ Len(calls') = Len(calls) + 1
    /\ calls'[Len(calls')].err # "nil"
\* accepted calls among the first n calls
AcceptedBefore(n) == Cardinality({i \in 1..n : IsAccepted(calls[i])})
\* once a call failed on a corrupt leaf, a later valid vote is still accepted
\* while the batch has room
AddableAfterCorrupt ==
    \A i, j \in 1..Len(calls) :
        (/\ i < j
         /\ calls[i].err = "CorruptStoredBallot"
         /\ IsValidVote(calls[j].vote)
         /\ AcceptedBefore(j - 1) < VoteBatchSize)
            => calls[j].err = "nil"

\* C3: an AddVote that returns an error (no batch open, batch full, stored
\* ciphertext does not decode) leaves votes, ballotSum, ballotCount,
\* overwriteSum and overwriteCount unchanged, and after a decode failure a
\* later AddVote of a valid vote on the same batch is accepted.
C3_FailedAddVoteKeepsBatch ==
    /\ [][FailedAddVoteStep => UNCHANGED batchVars]_vars
    /\ []AddableAfterCorrupt
C3_Witness ==
    /\ dbTx
    /\ \E i, j \in 1..Len(calls) :
        /\ i < j
        /\ calls[i].err = "CorruptStoredBallot"
        /\ calls[j].err = "nil"
    /\ ballotCount = 1
    /\ overwriteCount = 0

\* C10: on an open batch ballotSum is the sum of the ballots of exactly the
\* votes in votes, ballotCount = len(votes), votes holds the accepted votes in
\* acceptance order, overwriteSum is the sum (added) of the persisted
\* ciphertexts of the accepted votes whose nullifier had a leaf, and
\* overwriteCount is their number, at most ballotCount.
C10_RunningSums ==
    dbTx =>
        /\ votes = AcceptedVotes
        /\ BallotSum = SumCiphertexts([i \in 1..Len(votes) |-> votes[i].Ballot])
        /\ ballotCount = Len(votes)
        /\ OverwriteSum = SumCiphertexts(StoredOf(votes))
        /\ overwriteCount = Len(StoredOf(votes))
        /\ overwriteCount <= ballotCount
C10_Witness ==
    /\ dbTx
    /\ Len(votes) = 2
    /\ overwriteCount = 1
    /\ OverwriteSum # NewCiphertexts
    /\ \E i \in 1..Len(calls) : ~IsAccepted(calls[i])

(***************************************************************************)
(* Claims about the discrete logarithm solver (SolveSpec).                 *)
(***************************************************************************)
Returned == pc = "returned"
InSearchSpace(x) == x \in 0..discreteLogMaxMessage

\* C4: for every x in [0, MaxMessage] the discrete logarithm of M = x*G is
\* returned as exactly x, by the parallel brute force and by Baby-Step
\* Giant-Step alike, so the two strategies agree on M.
C4_RoundTrip ==
    (Returned /\ InSearchSpace(mScalar)) =>
        /\ ret = [kind |-> "scalar", x |-> mScalar]
        /\ babyStepGiantStep(m) = [err |-> FALSE, x |-> mScalar]
        /\ G1ScalarBaseMult(ret.x) = m
C4_Witness ==
    /\ Returned
    /\ ~useBabyStepGiantStep
    /\ mScalar = discreteLogMaxMessage
    /\ ret = [kind |-> "scalar", x |-> discreteLogMaxMessage]
    /\ babyStepGiantStep(m) = [err |-> FALSE, x |-> discreteLogMaxMessage]

\* the coordinator takes a match from the results channel in this step
ReceivesMatch ==
    /\ pc = "collect"
    /\ results # <<>>
    /\ Head(results).found
    /\ results' = Tail(results)
\* C7: on receiving a reported match the coordinator returns that scalar at
\* once; it does not wait for the workers whose ranges do not hold the answer
\* to finish scanning or to report.
C7_ReturnsOnFirstMatch ==
    [][ReceivesMatch =>
          /\ pc' = "returned"
          /\ ret' = [kind |-> "scalar", x |-> Head(results).messageScalar]
          /\ \A w \in Workers : wPc'[w] = wPc[w]]_vars
C7_Witness ==
    /\ Returned
    /\ ~useBabyStepGiantStep
    /\ ret.kind = "scalar"
    /\ collected = 0
    /\ \E w \in Workers : wPc[w] = "scan" /\ wI[w] <= WorkerEnd(w)
    /\ \A w \in Workers : wReported[w] = "found" \/ wPc[w] = "scan"

\* C8: when M is not x*G for any x in [0, MaxMessage] the solver returns the
\* unsolved error and no scalar, under either strategy; hence every scalar
\* returned lies in [0, MaxMessage].
C8_BoundedSearchSpace ==
    Returned =>
        /\ ~InSearchSpace(mScalar) => ret = [kind |-> "error"]
        /\ ret.kind = "scalar" => InSearchSpace(ret.x)

\* a match was reported, the coordinator returned it and closed done
CancellationBroadcast == done /\ ret.kind = "scalar"
\* the worker is in its loop with values of its range still to test
StillScanning(w) == wPc[w] = "scan" /\ wI[w] <= WorkerEnd(w)

\* C11: once a worker has found a match and the cancellation signal has been
\* broadcast, every other worker that is still scanning observes the signal
\* and stops scanning before it exhausts its own range: no such worker takes
\* the iteration that carries it past the end of its range.
C11_SiblingCancellation ==
    [][CancellationBroadcast =>
          \A w \in Workers : StillScanning(w) => wI'[w] <= WorkerEnd(w)]_vars

\* workers that sent an outcome on the results channel
Reporters == {w \in Workers : wReported[w] # "none"}
\* outcomes the coordinator took from the results channel
Received == collected + (IF ret.kind = "scalar" THEN 1 ELSE 0)
\* a worker sends once: every outcome sent is in the channel or was received,
\* and a worker that reported has left
OneOutcomePerWorker ==
    /\ ~useBabyStepGiantStep => Cardinality(Reporters) = Len(results) + Received
    /\ \A w \in Reporters : wPc[w] = "exit"
\* a worker at its send can complete it in the next step, whatever the
\* coordinator is doing
ReportNeverBlocks ==
    \A w \in Workers :
        /\ wPc[w] = "found" => ENABLED WorkerSelect(w)
        /\ wPc[w] = "notfound" => ENABLED WorkerSendNotFound(w)
\* the brute force returns a reported scalar, or the error after exactly W
\* not-found outcomes
ReturnsScalarOrError ==
    (Returned /\ ~useBabyStepGiantStep) =>
        \/ /\ ret.kind = "scalar"
           /\ \E w \in Workers : wReported[w] = "found" /\ wI[w] = ret.x
        \/ /\ ret = [kind |-> "error"]
           /\ collected = numWorkersDiscreteLogBruteForce
           /\ \A w \in Workers : wReported[w] = "notfound"
\* the brute force is over: the coordinator has returned and no worker is left
SearchOver ==
    /\ Returned
    /\ \A w \in Workers : wPc[w] = "exit"

\* C12: in every interleaving of the W workers and the coordinator, each
\* worker reports at most one outcome, its report never blocks (neither
\* while the coordinator is collecting nor after it has returned and closed
\* done), every worker eventually terminates, and the coordinator eventually
\* returns a found scalar or, after exactly W not-found outcomes, the error.
C12_SearchTerminates ==
    /\ [](OneOutcomePerWorker /\ ReportNeverBlocks /\ ReturnsScalarOrError)
    /\ [][\A w \in Reporters : wReported'[w] = wReported[w]]_vars
    /\ ~useBabyStepGiantStep => <>[]SearchOver
C12_Witness ==
    /\ SearchOver
    /\ ~useBabyStepGiantStep
    /\ ret.kind = "scalar"
    /\ Len(results) = numWorkersDiscreteLogBruteForce - 1
    /\ \A i \in 1..Len(results) : ~results[i].found

\* the key of this baby-step iteration is already in the table
BabyStepCollision ==
    /\ bsPc = "baby"
    /\ bsJ < bsMSqrt
    /\ G1String(bsBabyStep) \in DOMAIN bsBabySteps

IsInjective(sq) == \A i, j \in 1..Len(sq) : i # j => sq[i] # sq[j]

\* C5: for a fixed shared secret and ciphertext of m in [0, MaxMessage],
\* CombinePartialDecryptions over any threshold-sized list of distinct
\* participant ids, given their correct partial decryptions, returns m,
\* whichever subset is chosen and in whichever order.
C5_ThresholdIndependence ==
    (Returned /\ IsInjective(participantIds)) =>
        ret = [kind |-> "scalar", x |-> message]
C5_Witness ==
    /\ Returned
    /\ participantIds = <<NumParticipants, 2>>
    /\ message = discreteLogMaxMessage
    /\ ret = [kind |-> "scalar", x |-> message]
    /\ m = G1ScalarBaseMult(message)

\* CombinePartialDecryptions is past the Lagrange coefficients
CoefficientsAttempted == pc \in {"fatal", "solve", "returned"}

\* C14: when participantIds holds the same id twice, the Lagrange coefficient
\* computation fails with the fatal missing-modular-inverse error and
\* CombinePartialDecryptions produces no plaintext scalar; for pairwise
\* distinct ids in [1, N-1] the failure never occurs.
C14_CoincidingIdsRejected ==
    CoefficientsAttempted =>
        IF IsInjective(participantIds)
        THEN pc # "fatal"
        ELSE pc = "fatal" /\ ret.kind # "scalar"

\* the sum of lambda_i * i^k over the ids, modulo the group order
RECURSIVE Power(_, _)
Power(b, k) == IF k = 0 THEN 1 ELSE b * Power(b, k - 1)
RECURSIVE MomentSum(_, _, _)
MomentSum(ids, coeffs, k) ==
    IF ids = {} THEN 0
    ELSE LET i == CHOOSE x \in ids : TRUE
         IN  (coeffs[i] * Power(i, k) + MomentSum(ids \ {i}, coeffs, k)) % Order

\* C6: for pairwise distinct positive ids the coefficients returned by
\* computeLagrangeCoefficients lie in [0, N-1] and satisfy, modulo N,
\* sum_i lambda_i * i^k = 1 for k = 0 and = 0 for every k in 1..t-1.
C6_LagrangeCorrect ==
    (lagPc # "call" /\ lagPc # "idle" /\ IsInjective(lagParticipants)) =>
        /\ lagPc = "done"
        /\ DOMAIN lagResult.coeffs = SeqRange(lagParticipants)
        /\ \A i \in DOMAIN lagResult.coeffs : lagResult.coeffs[i] \in 0..(Order - 1)
        /\ \A k \in 0..(Len(lagParticipants) - 1) :
              MomentSum(SeqRange(lagParticipants), lagResult.coeffs, k)
                  = IF k = 0 THEN 1 ELSE 0
C6_Witness ==
    /\ lagPc = "done"
    /\ lagParticipants = <<1, 2, 3>>
    /\ lagResult.coeffs = (1 :> 3) @@ (2 :> Order - 3) @@ (3 :> 1)

(***************************************************************************)
(* Claim about the negation (NegSpec).                                     *)
(***************************************************************************)
\* C9: after g.Neg(a) the receiver is -a, that is a + g is the identity, for
\* any receiver g and argument a, and a is unchanged when it is not the receiver.
C9_NegIsMinusArgument ==
    negPc = "done" =>
        /\ BJJAdd(negArg0, negRecv) = NewPoint
        /\ ~negAlias => negArg = negArg0

(***************************************************************************)
(* Claim about the concurrent accumulation (AccumulateSpec).               *)
(***************************************************************************)
\* the start value plus the addends of the callers 1..n
RECURSIVE AddAll(_)
AddAll(n) == IF n = 0 THEN accStart ELSE BJJAdd(AddAll(n - 1), addend[n])
AllDone(meth) == \A c \in Callers : callPc[meth][c] = "done"
\* a caller inside the Add of SafeAdd holds the lock, so it is alone there
LockHeldInAdd ==
    \A c \in Callers :
        callPc["SafeAdd"][c] \in {"read", "write", "unlock"} => accLock = c

\* C15: when several concurrent callers each execute acc.SafeAdd(acc, x_i) on
\* one shared accumulator, in every interleaving the final value of acc is
\* the initial value plus the sum of all x_i, because the read of acc and the
\* write of the result both happen while the lock is held; the same calls
\* made through the unguarded Add can lose an update.
C15_GuardedAccumulation ==
    /\ LockHeldInAdd
    /\ AllDone("SafeAdd") => accInner["SafeAdd"] = AddAll(NumCallers)
C15_Witness ==
    /\ AllDone("SafeAdd")
    /\ AllDone("Add")
    /\ accInner["SafeAdd"] = AddAll(NumCallers)
    /\ accInner["SafeAdd"] # accStart
    /\ accInner["Add"] # AddAll(NumCallers)
    /\ \E c \in Callers : accInner["Add"] = BJJAdd(accStart, addend[c])

====
